---- MODULE Spec2Model ----
(***************************************************************************)
(* Model of ProcessDoc.py: the retrying invoker                            *)
(* (process_chunk_with_bedrock), the batch scheduler (process_batch), the  *)
(* result assembler (process_document), single-paragraph mode              *)
(* (process_single_paragraph) and the command-line entry point.            *)
(*                                                                         *)
(* Python indices are 0-based; TLA+ sequences are 1-based, so the unit     *)
(* with original index k is content[k + 1].  A text is a sequence of       *)
(* one-character strings.                                                  *)
(*                                                                         *)
(* A call of process_chunk_with_bedrock touches no shared state, so the    *)
(* steps of two pool threads commute.  In single-paragraph mode the call   *)
(* is taken one normalizer request at a time (InvokerStep per action); a   *)
(* pool thread of process_batch runs the same InvokerStep to completion    *)
(* in one action (RunInvoker), and the order in which the threads finish   *)
(* and are collected stays free.                                           *)
(***************************************************************************)
EXTENDS Integers, Sequences, FiniteSets, TLC

VARIABLES
    mode,                 \* "document" | "paragraph"  (args.paragraph is None or not)
    paragraph_number,     \* args.paragraph (0 in document mode, unused)
    output_file,          \* TRUE iff args.output was given
    pc,                   \* position of the main thread
    content,              \* read_word_file's result
    batch_start,          \* loop variable i of process_document
    futures,              \* future_to_index of the running process_batch, keyed by original index
    collected,            \* indices whose future as_completed has yielded
    results,              \* results of the running process_batch
    all_processed_chunks, \* aggregate list of process_document
    emit_pos,             \* number of entries the emission loop has passed
    inv,                  \* the process_chunk_with_bedrock call of single-paragraph mode
    out,                  \* characters written to the output file / stdout
    emitted,              \* history: original indices of the units written, in order
    pacing,               \* history: pacing delays slept by process_document
    error,                \* exception that reached the entry point ("none" if none)
    exit_status           \* -1 while running, then 0 or 1

vars == << mode, paragraph_number, output_file, pc, content, batch_start,
           futures, collected, results, all_processed_chunks, emit_pos,
           inv, out, emitted, pacing, error, exit_status >>

----------------------------------------------------------------------------
(* Bounds of the model *)

MaxUnits == 6        \* paragraphs in the input document: 0..MaxUnits
MaxThrottle == 5     \* the service throttles at most this many calls in a row
                     \* before it answers otherwise (more than any call asks)
MaxFreeUnits == 3     \* FairSpec: longest document whose threads finish in any order
MaxLongUnits == 13   \* paragraphs of the long documents of PartitionSpec

(* Program constants *)

RATE_LIMIT_DELAY == 1
MAX_RETRIES == 3
BATCH_SIZE == 5

----------------------------------------------------------------------------
(* Texts *)

NL == "\n"
None == << "None" >>          \* Python's None, the absence-marker
Digits == << "0", "1", "2", "3", "4", "5", "6", "7", "8", "9" >>
Blank == << " " >>            \* a whitespace-only paragraph

\* Text of the paragraph that becomes the unit with original index k.
UnitText(k) ==
    IF k < 10 THEN << "u", Digits[k + 1] >>
    ELSE << "u", Digits[(k \div 10) + 1], Digits[(k % 10) + 1] >>

\* str.strip() yields a non-empty string
StripNonEmpty(text) == \E k \in 1..Len(text) : text[k] \notin {" ", NL}

RECURSIVE FilterNonEmpty(_)
FilterNonEmpty(paras) ==
    IF paras = << >> THEN << >>
    ELSE IF StripNonEmpty(Head(paras))
         THEN << Head(paras) >> \o FilterNonEmpty(Tail(paras))
         ELSE FilterNonEmpty(Tail(paras))

\* Paragraphs of a document with n non-empty paragraphs; with blanks = TRUE
\* every one of them is followed by a whitespace-only paragraph.
RECURSIVE RawParagraphs(_, _, _)
RawParagraphs(k, n, blanks) ==
    IF k >= n THEN << >>
    ELSE << UnitText(k) >> \o (IF blanks THEN << Blank >> ELSE << >>)
         \o RawParagraphs(k + 1, n, blanks)

\* read_word_file on an existing, well-formed document
read_word_file(paras) == FilterNonEmpty(paras)

\* The remote normalizer's answer to a chunk when it succeeds: capitalization
\* only, every other character unchanged.
Capitalize(c) == IF c = "u" THEN "U" ELSE c
Normalize(chunk) == [k \in 1..Len(chunk) |-> Capitalize(chunk[k])]

----------------------------------------------------------------------------
(* Retrying invoker: process_chunk_with_bedrock *)

\* What one invoke_model request can do.
Outcomes == {"ok", "throttle", "client_error", "timeout"}

CallEvent(rc) == [ev |-> "call", arg |-> rc]
SleepEvent(d) == [ev |-> "sleep", arg |-> d]

RECURSIVE Pow2(_)
Pow2(n) == IF n = 0 THEN 1 ELSE 2 * Pow2(n - 1)

\* delay = RATE_LIMIT_DELAY * (2 ** retry_count)
BackoffDelay_Linear(retry_count) == RATE_LIMIT_DELAY * 2 * retry_count
BackoffDelay(retry_count) == RATE_LIMIT_DELAY * Pow2(retry_count)

\* if error_code == 'ThrottlingException'
IsThrottling_AnyClientError(outcome) == outcome \in {"throttle", "client_error"}
IsThrottling(outcome) == outcome = "throttle"

\* if retry_count < MAX_RETRIES
MayRetry_OneLess(retry_count) == retry_count < MAX_RETRIES - 1
MayRetry_Always(retry_count) == TRUE
MayRetry(retry_count) == retry_count < MAX_RETRIES

\* The exception that leaves the call for an outcome that ends it in failure:
\* raise BedrockRateLimitError(...) / raise (the ClientError) / raise (any other)
RaisedKind_Reraise(outcome) ==
    IF outcome \in {"throttle", "client_error"} THEN "ClientError" ELSE "Exception"
RaisedKind(outcome) ==
    CASE outcome = "throttle" -> "BedrockRateLimitError"
      [] outcome = "client_error" -> "ClientError"
      [] outcome = "timeout" -> "Exception"

\* A fresh call process_chunk_with_bedrock(chunk), retry_count = 0.
NewInvoker_StartsAtOne(chunk) ==
    [chunk |-> chunk, retry_count |-> 1, status |-> "running",
     value |-> None, trace |-> << >>, replies |-> << >>]
NewInvoker(chunk) ==
    [chunk |-> chunk, retry_count |-> 0, status |-> "running",
     value |-> None, trace |-> << >>, replies |-> << >>]

NoInvoker ==
    [chunk |-> None, retry_count |-> 0, status |-> "idle",
     value |-> None, trace |-> << >>, replies |-> << >>]

\* One request of a running call and the handling of its outcome.
\* status: "returned" (value = the text) | "raised" (value = << kind >>)
\* trace: the requests and backoff sleeps of the call, in order (history)
\* replies: what the service answered to each request (history)
InvokerStep(iv, outcome) ==
    LET called == [iv EXCEPT !.trace = Append(iv.trace, CallEvent(iv.retry_count)),
                             !.replies = Append(iv.replies, outcome)]
    IN
    IF outcome = "ok"
    THEN [called EXCEPT !.status = "returned", !.value = Normalize(iv.chunk)]
    ELSE IF IsThrottling(outcome) /\ MayRetry(iv.retry_count)
    THEN [called EXCEPT !.retry_count = iv.retry_count + 1,
                        !.trace = Append(called.trace,
                                         SleepEvent(BackoffDelay(iv.retry_count)))]
    ELSE [called EXCEPT !.status = "raised", !.value = << RaisedKind(outcome) >>]

\* Behaviour of the service during one call of the invoker: it throttles the
\* first `throttles` requests and answers `final` to the next one.  The call
\* ends at the first request that is not throttled, so this covers every
\* behaviour the call can observe.
Oracles == [throttles : 0..MaxThrottle, final : Outcomes \ {"throttle"}]

OutcomeAt(oracle, requests) ==
    IF requests < oracle.throttles THEN "throttle" ELSE oracle.final

Requests(trace) == Cardinality({k \in 1..Len(trace) : trace[k].ev = "call"})

\* The whole call, as a pool thread runs it.
RECURSIVE RunInvoker(_, _)
RunInvoker(iv, oracle) ==
    IF iv.status # "running" THEN iv
    ELSE RunInvoker(InvokerStep(iv, OutcomeAt(oracle, Requests(iv.trace))), oracle)

----------------------------------------------------------------------------
(* Lists *)

Min(a, b) == IF a < b THEN a ELSE b

\* Python slice seq[lo:hi] with 0 <= lo
Slice_Inclusive(seq, lo, hi) == SubSeq(seq, lo + 1, Min(hi + 1, Len(seq)))
Slice(seq, lo, hi) == SubSeq(seq, lo + 1, Min(hi, Len(seq)))

\* list.sort(key=lambda x: x[0]): stable, ascending in the first component.
\* RankByIndex(list, i) is the place that list[i] takes in the sorted list.
RankByIndex(list, i) ==
    Cardinality({j \in 1..Len(list) :
                    \/ list[j][1] < list[i][1]
                    \/ list[j][1] = list[i][1] /\ j <= i})

SortByIndex_Unsorted(list) == list

SortByIndex(list) ==
    [k \in 1..Len(list) |->
        list[CHOOSE i \in 1..Len(list) : RankByIndex(list, i) = k]]

----------------------------------------------------------------------------
(* Entry point *)

NoError == [kind |-> "none", detail |-> << >>]

\* An exception that reaches the entry point: logged, then exit(1).
Raise_NoExit(kind, detail) ==
    /\ pc' = "error"
    /\ error' = [kind |-> kind, detail |-> detail]
    /\ exit_status' = 0
Raise(kind, detail) ==
    /\ pc' = "error"
    /\ error' = [kind |-> kind, detail |-> detail]
    /\ exit_status' = 1

\* Normal end of the entry point.
Exit0 ==
    /\ pc' = "done"
    /\ exit_status' = 0
    /\ UNCHANGED error

Init ==
    /\ mode \in {"document", "paragraph"}
    /\ paragraph_number \in (IF mode = "document" THEN {0} ELSE -1..(MaxUnits + 1))
    /\ output_file \in BOOLEAN
    /\ pc = "start"
    /\ content = << >>
    /\ batch_start = 0
    /\ futures = << >>
    /\ collected = {}
    /\ results = << >>
    /\ all_processed_chunks = << >>
    /\ emit_pos = 0
    /\ inv = NoInvoker
    /\ out = << >>
    /\ emitted = << >>
    /\ pacing = << >>
    /\ error = NoError
    /\ exit_status = -1

\* content = read_word_file(file_path), in either mode
ReadDocument ==
    /\ pc = "start"
    /\ \E n \in 0..MaxUnits, blanks \in BOOLEAN :
         content' = read_word_file(RawParagraphs(0, n, blanks))
    /\ pc' = IF mode = "document" THEN "loop" ELSE "validate"
    /\ UNCHANGED << mode, paragraph_number, output_file, batch_start, futures,
                    collected, results, all_processed_chunks, emit_pos, inv,
                    out, emitted, pacing, error, exit_status >>

\* read_word_file raises: the file does not exist, or Document() fails
ReadFails ==
    /\ pc = "start"
    /\ \E kind \in {"FileNotFoundError", "DocumentError"} : Raise(kind, << >>)
    /\ UNCHANGED << mode, paragraph_number, output_file, content, batch_start,
                    futures, collected, results, all_processed_chunks,
                    emit_pos, inv, out, emitted, pacing >>

----------------------------------------------------------------------------
(* Batch scheduler: process_document's loop and process_batch *)

Pending(chunk) == [state |-> "pending", value |-> chunk]

\* future_to_index of process_batch(chunks, start_index), keyed by index
SubmitAll_NoOffset(chunks, start_index) ==
    [k \in 0..(Len(chunks) - 1) |-> Pending(chunks[k + 1])]
SubmitAll_SkipLast(chunks, start_index) ==
    [k \in {p + start_index : p \in 0..(Len(chunks) - 2)} |->
        Pending(chunks[k - start_index + 1])]
SubmitAll(chunks, start_index) ==
    [k \in {p + start_index : p \in 0..(Len(chunks) - 1)} |->
        Pending(chunks[k - start_index + 1])]

\* for i in range(0, len(content), BATCH_SIZE): batch = content[i:i + BATCH_SIZE];
\* process_batch(batch, i) submits every chunk of the batch to the pool
DispatchBatch ==
    /\ pc = "loop"
    /\ batch_start < Len(content)
    /\ futures' = SubmitAll(Slice(content, batch_start, batch_start + BATCH_SIZE),
                            batch_start)
    /\ results' = << >>
    /\ collected' = {}
    /\ pc' = "batch"
    /\ UNCHANGED << mode, paragraph_number, output_file, content, batch_start,
                    all_processed_chunks, emit_pos, inv, out, emitted, pacing,
                    error, exit_status >>

\* A pool thread runs process_chunk_with_bedrock(chunk) to its end.
RunCall(k) ==
    /\ pc = "batch"
    /\ k \in DOMAIN futures
    /\ futures[k].state = "pending"
    /\ \E oracle \in Oracles :
         LET r == RunInvoker(NewInvoker(futures[k].value), oracle) IN
         futures' = [futures EXCEPT ![k] = [state |-> r.status, value |-> r.value]]
    /\ UNCHANGED << mode, paragraph_number, output_file, pc, content,
                    batch_start, collected, results, all_processed_chunks,
                    emit_pos, inv, out, emitted, pacing, error, exit_status >>

\* The entry process_batch appends for a finished future
CollectedEntry_ByArrival(original_index, future) ==
    IF future.state = "returned"
    THEN << batch_start + Len(results), future.value >>
    ELSE << batch_start + Len(results), None >>
CollectedEntry(original_index, future) ==
    IF future.state = "returned"
    THEN << original_index, future.value >>
    ELSE << original_index, None >>

\* except Exception as e: the exceptions of a call that process_batch handles
Caught_RateLimitOnly(kind) == kind = "BedrockRateLimitError"
Caught(kind) == kind \in {"BedrockRateLimitError", "ClientError", "Exception"}

\* as_completed yields a finished future (futures keeps those not yet
\* yielded); future.result() returns the text or raises the call's exception
Collect(k) ==
    /\ pc = "batch"
    /\ k \in DOMAIN futures
    /\ futures[k].state # "pending"
    /\ IF futures[k].state = "raised" /\ ~Caught(futures[k].value[1])
       THEN /\ Raise(futures[k].value[1], << >>)
            /\ UNCHANGED << results, collected, futures >>
       ELSE /\ results' = Append(results, CollectedEntry(k, futures[k]))
            /\ collected' = collected \cup {k}
            /\ futures' = [j \in DOMAIN futures \ {k} |-> futures[j]]
            /\ UNCHANGED << pc, error, exit_status >>
    /\ UNCHANGED << mode, paragraph_number, output_file, content,
                    batch_start, all_processed_chunks, emit_pos, inv, out,
                    emitted, pacing >>

\* process_batch sorts and returns; process_document extends the aggregate
ReturnBatch_Early ==
    /\ pc = "batch"
    /\ collected # {}
    /\ all_processed_chunks' = all_processed_chunks \o SortByIndex(results)
    /\ pc' = "pace"
    /\ UNCHANGED << mode, paragraph_number, output_file, content, batch_start,
                    futures, collected, results, emit_pos, inv, out, emitted,
                    pacing, error, exit_status >>

ReturnBatch ==
    /\ pc = "batch"
    /\ DOMAIN futures = {}
    /\ all_processed_chunks' = all_processed_chunks \o SortByIndex(results)
    /\ pc' = "pace"
    /\ UNCHANGED << mode, paragraph_number, output_file, content, batch_start,
                    futures, collected, results, emit_pos, inv, out, emitted,
                    pacing, error, exit_status >>

\* time.sleep(RATE_LIMIT_DELAY), then the next iteration
Pace_NoSleep ==
    /\ pc = "pace"
    /\ batch_start' = batch_start + BATCH_SIZE
    /\ pc' = "loop"
    /\ UNCHANGED << mode, paragraph_number, output_file, content, futures,
                    collected, results, all_processed_chunks, emit_pos, inv,
                    out, emitted, pacing, error, exit_status >>

Pace ==
    /\ pc = "pace"
    /\ pacing' = Append(pacing, RATE_LIMIT_DELAY)
    /\ batch_start' = batch_start + BATCH_SIZE
    /\ pc' = "loop"
    /\ UNCHANGED << mode, paragraph_number, output_file, content, futures,
                    collected, results, all_processed_chunks, emit_pos, inv,
                    out, emitted, error, exit_status >>

----------------------------------------------------------------------------
(* Result assembler: the end of process_document *)

\* The loop is over: all_processed_chunks.sort(key=lambda x: x[0])
Assemble_Early ==
    /\ pc = "loop"
    /\ batch_start >= Min(BATCH_SIZE, Len(content))
    /\ all_processed_chunks' = SortByIndex(all_processed_chunks)
    /\ emit_pos' = 0
    /\ pc' = "emit"
    /\ UNCHANGED << mode, paragraph_number, output_file, content, batch_start,
                    futures, collected, results, inv, out, emitted, pacing,
                    error, exit_status >>

Assemble ==
    /\ pc = "loop"
    /\ batch_start >= Len(content)
    /\ all_processed_chunks' = SortByIndex(all_processed_chunks)
    /\ emit_pos' = 0
    /\ pc' = "emit"
    /\ UNCHANGED << mode, paragraph_number, output_file, content, batch_start,
                    futures, collected, results, inv, out, emitted, pacing,
                    error, exit_status >>

\* if output_file: open(output_file, 'w') ... else: the print loop
OpenOutput ==
    /\ pc = "emit"
    /\ \/ /\ pc' = IF output_file THEN "write" ELSE "print"
          /\ out' = << >>
          /\ UNCHANGED << error, exit_status >>
       \/ /\ output_file
          /\ Raise("OSError", << >>)
          /\ UNCHANGED out
    /\ UNCHANGED << mode, paragraph_number, output_file, content, batch_start,
                    futures, collected, results, all_processed_chunks,
                    emit_pos, inv, emitted, pacing >>

\* if chunk is not None
IsEmitted_Always(chunk) == TRUE
IsEmitted_Inverted(chunk) == chunk = None
IsEmitted(chunk) == chunk # None

\* f.write(chunk + '\n\n')
FileText(chunk) == chunk \o << NL, NL >>

\* One iteration of: for _, chunk in all_processed_chunks (file branch)
WriteChunk ==
    /\ pc = "write"
    /\ emit_pos < Len(all_processed_chunks)
    /\ LET entry == all_processed_chunks[emit_pos + 1] IN
       IF IsEmitted(entry[2])
       THEN \/ /\ out' = out \o FileText(entry[2])
               /\ emitted' = Append(emitted, entry[1])
               /\ emit_pos' = emit_pos + 1
               /\ UNCHANGED << pc, error, exit_status >>
            \/ /\ Raise("OSError", << >>)
               /\ UNCHANGED << out, emitted, emit_pos >>
       ELSE /\ emit_pos' = emit_pos + 1
            /\ UNCHANGED << pc, out, emitted, error, exit_status >>
    /\ UNCHANGED << mode, paragraph_number, output_file, content, batch_start,
                    futures, collected, results, all_processed_chunks, inv,
                    pacing >>

\* One iteration of the print branch, first half: print(chunk)
PrintChunk ==
    /\ pc = "print"
    /\ emit_pos < Len(all_processed_chunks)
    /\ LET entry == all_processed_chunks[emit_pos + 1] IN
       IF IsEmitted(entry[2])
       THEN \/ /\ out' = out \o entry[2] \o << NL >>
               /\ emitted' = Append(emitted, entry[1])
               /\ pc' = "print_blank"
               /\ UNCHANGED << emit_pos, error, exit_status >>
            \/ /\ Raise("OSError", << >>)
               /\ UNCHANGED << out, emitted, emit_pos >>
       ELSE /\ emit_pos' = emit_pos + 1
            /\ UNCHANGED << pc, out, emitted, error, exit_status >>
    /\ UNCHANGED << mode, paragraph_number, output_file, content, batch_start,
                    futures, collected, results, all_processed_chunks, inv,
                    pacing >>

\* second half: print()
PrintBlank ==
    /\ pc = "print_blank"
    /\ \/ /\ out' = out \o << NL >>
          /\ emit_pos' = emit_pos + 1
          /\ pc' = "print"
          /\ UNCHANGED << error, exit_status >>
       \/ /\ Raise("OSError", << >>)
          /\ UNCHANGED << out, emit_pos >>
    /\ UNCHANGED << mode, paragraph_number, output_file, content, batch_start,
                    futures, collected, results, all_processed_chunks, inv,
                    emitted, pacing >>

\* The emission loop is over; process_document returns and the program ends.
FinishDocument ==
    /\ pc \in {"write", "print"}
    /\ emit_pos = Len(all_processed_chunks)
    /\ Exit0
    /\ UNCHANGED << mode, paragraph_number, output_file, content, batch_start,
                    futures, collected, results, all_processed_chunks,
                    emit_pos, inv, out, emitted, pacing >>

----------------------------------------------------------------------------
(* Single-paragraph mode: process_single_paragraph and its caller *)

\* if index < 0 or index >= len(content)
InvalidIndex_FirstRejected(index, length) == index <= 0 \/ index >= length
InvalidIndex(index, length) == index < 0 \/ index >= length

\* index = paragraph_number - 1, validated; then the call is started
Validate ==
    /\ pc = "validate"
    /\ LET index == paragraph_number - 1 IN
       IF InvalidIndex(index, Len(content))
       THEN /\ Raise("ValueError", << Len(content), 1, Len(content) >>)
            /\ UNCHANGED inv
       ELSE /\ inv' = NewInvoker(content[index + 1])
            /\ pc' = "invoke"
            /\ UNCHANGED << error, exit_status >>
    /\ UNCHANGED << mode, paragraph_number, output_file, content, batch_start,
                    futures, collected, results, all_processed_chunks,
                    emit_pos, out, emitted, pacing >>

\* One normalizer request of process_chunk_with_bedrock(content[index]); the
\* call's exception, if any, leaves process_single_paragraph at once.
InvokeSingle ==
    /\ pc = "invoke"
    /\ inv.status = "running"
    /\ \E outcome \in Outcomes :
         /\ outcome = "throttle" => Requests(inv.trace) < MaxThrottle
         /\ LET r == InvokerStep(inv, outcome) IN
            /\ inv' = r
            /\ CASE r.status = "running" -> UNCHANGED << pc, error, exit_status >>
                 [] r.status = "returned" ->
                      /\ pc' = "output"
                      /\ UNCHANGED << error, exit_status >>
                 [] r.status = "raised" -> Raise(r.value[1], << >>)
    /\ UNCHANGED << mode, paragraph_number, output_file, content, batch_start,
                    futures, collected, results, all_processed_chunks,
                    emit_pos, out, emitted, pacing >>

\* f.write(processed_text + '\n')  or  print(processed_text)
OutputSingle ==
    /\ pc = "output"
    /\ \/ /\ out' = inv.value \o << NL >>
          /\ emitted' = Append(emitted, paragraph_number - 1)
          /\ Exit0
       \/ /\ Raise("OSError", << >>)
          /\ UNCHANGED << out, emitted >>
    /\ UNCHANGED << mode, paragraph_number, output_file, content, batch_start,
                    futures, collected, results, all_processed_chunks,
                    emit_pos, inv, pacing >>

----------------------------------------------------------------------------

Next ==
    \/ ReadDocument
    \/ ReadFails
    \/ DispatchBatch
    \/ \E k \in 0..(MaxUnits - 1) : RunCall(k)
    \/ \E k \in 0..(MaxUnits - 1) : Collect(k)
    \/ ReturnBatch
    \/ Pace
    \/ Assemble
    \/ OpenOutput
    \/ WriteChunk
    \/ PrintChunk
    \/ PrintBlank
    \/ FinishDocument
    \/ Validate
    \/ InvokeSingle
    \/ OutputSingle

Spec == Init /\ [][Next]_vars

----------------------------------------------------------------------------
(* Vocabulary of the properties *)

DocumentMode == mode = "document"
ParagraphMode == mode = "paragraph"

\* The batch loop of process_document is over.
LoopOver ==
    /\ DocumentMode
    /\ \/ pc = "loop" /\ batch_start >= Len(content)
       \/ pc \in {"emit", "write", "print", "print_blank", "done"}
       \/ pc = "error" /\ error.kind = "OSError"

\* The final sort is done and emission has begun or is about to.
Assembled == LoopOver /\ pc # "loop"

Indices(list) == {list[k][1] : k \in 1..Len(list)}
Occurrences(list, index) == Cardinality({k \in 1..Len(list) : list[k][1] = index})
Ascending(ints) == \A a, b \in 1..Len(ints) : a < b => ints[a] < ints[b]
IndexColumn(list) == [k \in 1..Len(list) |-> list[k][1]]

\* The result recorded for an original index (when there is exactly one).
ResultOf(list, index) == list[CHOOSE k \in 1..Len(list) : list[k][1] = index][2]

IsPrefix(a, b) == Len(a) <= Len(b) /\ SubSeq(b, 1, Len(a)) = a

----------------------------------------------------------------------------
\* C1: When the batch loop of process_document is over, the aggregate list
\* has exactly N entries for an N-unit document and holds every original
\* index 0..N-1 exactly once, whatever the calls returned and in whatever
\* order they completed; while the loop runs no index is recorded twice.
C1_AggregateComplete ==
    /\ LoopOver =>
         /\ Len(all_processed_chunks) = Len(content)
         /\ \A index \in 0..(Len(content) - 1) :
               Occurrences(all_processed_chunks, index) = 1
    /\ (DocumentMode /\ pc \in {"batch", "pace"}) =>
         \A index \in 0..(Len(content) - 1) :
            Occurrences(all_processed_chunks \o
                        (IF pc = "batch" THEN results ELSE << >>), index) <= 1

\* A six-unit run (two batches) has ended, with a failed and a successful unit.
C1_Witness ==
    /\ DocumentMode /\ pc = "done"
    /\ Len(content) > BATCH_SIZE
    /\ \E a, b \in 1..Len(all_processed_chunks) :
          /\ all_processed_chunks[a][2] = None
          /\ all_processed_chunks[b][2] # None

\* C2: The units written by process_document appear in strictly ascending
\* original-index order, for every completion order inside the batches: the
\* list being emitted is ascending by index and so is what has been written.
C2_AscendingOutput ==
    DocumentMode =>
       /\ Ascending(emitted)
       /\ Assembled => Ascending(IndexColumn(all_processed_chunks))

\* A run has ended whose last batch was collected out of index order and
\* which wrote at least two units.
C2_Witness ==
    /\ DocumentMode /\ pc = "done"
    /\ ~Ascending(IndexColumn(results))
    /\ Len(emitted) >= 2

\* Text that whole-document mode is to emit for the indices lo..hi-1: the
\* text of every unit with a result, followed by a blank line, ascending.
RECURSIVE ExpectedText(_, _, _)
ExpectedText(list, lo, hi) ==
    IF lo >= hi THEN << >>
    ELSE (IF ResultOf(list, lo) = None THEN << >>
          ELSE ResultOf(list, lo) \o << "\n", "\n" >>)
         \o ExpectedText(list, lo + 1, hi)

RECURSIVE ExpectedUnits(_, _, _)
ExpectedUnits(list, lo, hi) ==
    IF lo >= hi THEN << >>
    ELSE (IF ResultOf(list, lo) = None THEN << >> ELSE << lo >>)
         \o ExpectedUnits(list, lo + 1, hi)

\* C3: At the end of a whole-document run the emitted text is exactly the
\* normalized texts of the units that have one, ascending by index, each
\* followed by a blank line; a unit with the absence-marker adds nothing, and
\* every other unit is written exactly once.
C3_EmittedText ==
    (DocumentMode /\ pc = "done") =>
       /\ out = ExpectedText(all_processed_chunks, 0, Len(content))
       /\ emitted = ExpectedUnits(all_processed_chunks, 0, Len(content))

\* A run has ended in which a failed unit lies between two written ones.
C3_Witness ==
    /\ DocumentMode /\ pc = "done"
    /\ Len(all_processed_chunks) >= 3
    /\ all_processed_chunks[1][2] # None
    /\ all_processed_chunks[2][2] = None
    /\ all_processed_chunks[3][2] # None

----------------------------------------------------------------------------
(* Vocabulary of the invoker's properties *)

InvokerErrors == {"BedrockRateLimitError", "ClientError", "Exception"}
ReadErrors == {"FileNotFoundError", "DocumentError"}
RateLimitExhausted == << "BedrockRateLimitError" >>

AllThrottled(iv) == \A k \in 1..Len(iv.replies) : iv.replies[k] = "throttle"

IsSleep(event) == event.ev = "sleep"
Sleeps(trace) ==
    LET naps == SelectSeq(trace, IsSleep) IN [k \in 1..Len(naps) |-> naps[k].arg]

\* The indices process_batch was called for: start_index .. start_index + len - 1
BatchRange == batch_start .. (Min(batch_start + BATCH_SIZE, Len(content)) - 1)

----------------------------------------------------------------------------
\* C4: In whole-document mode the failure of a unit's call is contained: no
\* exception of the invoker reaches the entry point; collecting a failed
\* future records the absence-marker for that index only and leaves the batch
\* running; a batch returns only with a result for each of its units; and when
\* the loop is over every index of the document has a result, so the batches
\* after a failure were dispatched too.
C4_FailureContained ==
    /\ [](DocumentMode =>
            /\ error.kind \notin InvokerErrors
            /\ pc = "pace" => (Indices(results) = BatchRange
                                 /\ Len(results) = Cardinality(BatchRange))
            /\ LoopOver => Indices(all_processed_chunks) = 0..(Len(content) - 1))
    /\ [][\A k \in 0..(MaxUnits - 1) :
            (/\ pc = "batch"
             /\ k \in DOMAIN futures
             /\ futures[k].state = "raised"
             /\ futures' # futures)
            => (/\ pc' = "batch"
                /\ results' = Append(results, << k, None >>)
                /\ \A j \in DOMAIN futures \ {k} :
                      j \in DOMAIN futures' /\ futures'[j] = futures[j])
               \/ (k \in DOMAIN futures' /\ futures'[k] = futures[k])]_vars

\* A two-batch run has ended: the first unit failed, the second unit of the
\* same batch and the unit of the later batch have a text.
C4_Witness ==
    /\ DocumentMode /\ pc = "done"
    /\ Len(content) > BATCH_SIZE
    /\ all_processed_chunks[1][2] = None
    /\ all_processed_chunks[2][2] # None
    /\ all_processed_chunks[Len(content)][2] # None

\* C5 as claimed: a call whose requests are all throttled makes exactly
\* MAX_RETRIES = 3 requests in total and then raises BedrockRateLimitError.
C5_ThreeRequestsClaimed ==
    (inv.status # "idle" /\ AllThrottled(inv)) =>
       /\ Requests(inv.trace) <= MAX_RETRIES
       /\ inv.status = "raised" <=> Requests(inv.trace) = MAX_RETRIES

\* C5 (amended): a call whose requests are all throttled makes exactly
\* MAX_RETRIES + 1 = 4 requests in total (the first one and 3 retries) and
\* then raises BedrockRateLimitError; it raises that error in no other way.
C5_FourRequests ==
    /\ (inv.status # "idle" /\ AllThrottled(inv)) =>
          /\ Requests(inv.trace) = Len(inv.replies)
          /\ Requests(inv.trace) <= MAX_RETRIES + 1
          /\ Requests(inv.trace) = MAX_RETRIES + 1 <=> inv.status = "raised"
          /\ Requests(inv.trace) < MAX_RETRIES + 1 <=> inv.status = "running"
          /\ inv.status = "raised" => inv.value = RateLimitExhausted
    /\ (inv.status = "raised" /\ inv.value = RateLimitExhausted) =>
          /\ AllThrottled(inv)
          /\ Requests(inv.trace) = 4

\* The call of single-paragraph mode has given up after throttled requests only.
C5_Witness ==
    /\ inv.status = "raised"
    /\ inv.value = RateLimitExhausted
    /\ Len(inv.replies) = MAX_RETRIES + 1
    /\ AllThrottled(inv)

\* C6: The backoff delays of a call are 1, 2, 4 in this order: the trace of a
\* call alternates requests and sleeps, a sleep follows a throttled request
\* only, the sleep after the k-th throttled request (k from 0) lasts
\* RATE_LIMIT_DELAY * 2^k and is followed by the next request, and a call
\* that gives up has slept exactly 1, 2, 4 and nothing after its last request.
C6_BackoffDelays ==
    inv.status # "idle" =>
       /\ IsPrefix(Sleeps(inv.trace), << 1, 2, 4 >>)
       /\ \A k \in 1..Len(inv.trace) :
             /\ (k % 2 = 1) <=> inv.trace[k].ev = "call"
             /\ (k % 2 = 0) <=> inv.trace[k].ev = "sleep"
             /\ inv.trace[k].ev = "sleep" =>
                  /\ inv.replies[k \div 2] = "throttle"
                  /\ inv.trace[k - 1].arg = (k \div 2) - 1
                  /\ inv.trace[k].arg = RATE_LIMIT_DELAY * Pow2((k \div 2) - 1)
                  /\ k = Len(inv.trace) => inv.status = "running"
       /\ inv.status # "running" => inv.trace[Len(inv.trace)].ev = "call"
       /\ (inv.status = "raised" /\ AllThrottled(inv)) =>
             Sleeps(inv.trace) = << 1, 2, 4 >>

\* Retry exhaustion has reached the entry point after the sleeps 1, 2, 4.
C6_Witness ==
    /\ ParagraphMode /\ pc = "error"
    /\ error.kind = "BedrockRateLimitError"
    /\ Sleeps(inv.trace) = << 1, 2, 4 >>

NonThrottlingError(outcome) == outcome \in {"client_error", "timeout"}

\* C7: A non-throttling error ends the call at once: it is the call's last
\* reply, the call has raised an error that is not retry exhaustion, no sleep
\* and no request follows it (also after earlier throttled requests), and the
\* ended call takes no further step.  For every future still pending in
\* process_batch the same holds of the call its thread will run, and a failed
\* future is collected as the absence-marker.
C7_NoRetryOnOtherError ==
    /\ [](/\ \A k \in 1..Len(inv.replies) :
               NonThrottlingError(inv.replies[k]) =>
                  /\ k = Len(inv.replies)
                  /\ inv.status = "raised"
                  /\ inv.value # RateLimitExhausted
                  /\ Requests(inv.trace) = k
                  /\ Len(Sleeps(inv.trace)) = k - 1
                  /\ inv.trace[Len(inv.trace)].ev = "call"
          /\ \A i \in DOMAIN futures :
               futures[i].state = "pending" =>
                  \A oracle \in Oracles :
                     (oracle.throttles <= MAX_RETRIES /\ oracle.final # "ok") =>
                        LET r == RunInvoker(NewInvoker(futures[i].value), oracle) IN
                        /\ r.status = "raised"
                        /\ r.value # RateLimitExhausted
                        /\ Requests(r.trace) = oracle.throttles + 1
                        /\ Len(Sleeps(r.trace)) = oracle.throttles
                        /\ r.trace[Len(r.trace)].ev = "call")
    /\ [][/\ inv.status = "raised" => inv' = inv
          /\ \A i \in 0..(MaxUnits - 1) :
               (/\ i \in DOMAIN futures
                /\ futures[i].state = "raised"
                /\ futures[i].value # RateLimitExhausted
                /\ i \notin DOMAIN futures')
               => results' = Append(results, << i, None >>)]_vars

\* A service error that is not throttling has ended the call of
\* single-paragraph mode after two throttled requests.
C7_Witness ==
    /\ ParagraphMode /\ pc = "error"
    /\ error.kind = "ClientError"
    /\ inv.replies = << "throttle", "throttle", "client_error" >>

\* C8: A call raises BedrockRateLimitError if and only if its last request was
\* throttled with the retry budget spent; a non-throttling service error is
\* raised as ClientError and a timeout as a generic exception, never as
\* BedrockRateLimitError, and the entry point is handed the kind that the call raised.
C8_DistinctExhaustion ==
    /\ inv.status = "raised" =>
          LET last == inv.replies[Len(inv.replies)] IN
          /\ inv.value = RateLimitExhausted
                <=> (last = "throttle" /\ inv.retry_count >= MAX_RETRIES)
          /\ last = "throttle" => inv.retry_count = MAX_RETRIES
          /\ last = "client_error" => inv.value = << "ClientError" >>
          /\ last = "timeout" => inv.value = << "Exception" >>
          /\ last # "ok"
    /\ (ParagraphMode /\ error.kind \in InvokerErrors) =>
          inv.status = "raised" /\ inv.value = << error.kind >>
    /\ \A i \in DOMAIN futures :
          futures[i].state = "raised" => futures[i].value[1] \in InvokerErrors

\* A timeout after three throttled requests: the budget is spent, the error
\* that reaches the entry point is the generic one.
C8_Witness ==
    /\ ParagraphMode /\ pc = "error"
    /\ error.kind = "Exception"
    /\ inv.retry_count = MAX_RETRIES

ValidNumber == 1 <= paragraph_number /\ paragraph_number <= Len(content)

\* C9: In single-paragraph mode on an N-unit document the number p passes
\* validation exactly when 1 <= p <= N.  Otherwise the run fails with a
\* ValueError whose message names N and the bounds 1 and N, and no normalizer
\* request is made; a valid p starts one call on the unit with index p - 1,
\* and a run that ends well has written the normalizer's answer to that unit.
C9_ParagraphRange ==
    ParagraphMode =>
       /\ error.kind = "ValueError" =>
             /\ ~ValidNumber
             /\ error.detail = << Len(content), 1, Len(content) >>
             /\ inv = NoInvoker
             /\ out = << >>
       /\ pc \in {"invoke", "output", "done"} =>
             /\ ValidNumber
             /\ inv.chunk = content[paragraph_number]
       /\ inv.status # "idle" => ValidNumber
       /\ (pc = "error" /\ ~ValidNumber) => error.kind \in ReadErrors \cup {"ValueError"}
       /\ (pc = "error" /\ ValidNumber) => error.kind # "ValueError"
       /\ pc = "done" =>
             /\ inv.status = "returned"
             /\ inv.value = Normalize(content[paragraph_number])
             /\ out = inv.value \o << "\n" >>
             /\ emitted = << paragraph_number - 1 >>

\* Paragraph N + 1 of a document with N >= 1 units has been refused.
C9_Witness ==
    /\ ParagraphMode /\ pc = "error"
    /\ error.kind = "ValueError"
    /\ Len(content) >= 1
    /\ paragraph_number = Len(content) + 1

\* What the claims about failures outside the batches have in common: such a
\* failure reaches the entry point with exit status 1, single-paragraph mode
\* makes one call and no batch, and neither ends well after a failure.
NotContained ==
    /\ error.kind # "none" <=> pc = "error"
    /\ pc = "error" <=> exit_status = 1
    /\ pc = "done" <=> exit_status = 0
    /\ ParagraphMode =>
          /\ futures = << >> /\ results = << >> /\ all_processed_chunks = << >>
          /\ inv.status = "raised" => (pc = "error" /\ error.kind = inv.value[1])
    /\ error.kind \in ReadErrors =>
          content = << >> /\ inv = NoInvoker /\ all_processed_chunks = << >>

\* C10 as claimed: a failure of reading, of the call of single-paragraph mode
\* or of writing the output ends the run in the error state, and nothing has
\* been emitted.
C10_NothingEmittedClaimed ==
    /\ NotContained
    /\ pc = "error" => (out = << >> /\ emitted = << >>)

\* C10 (amended): such a failure ends the run in the error state with exit
\* status 1 and is never recorded as an absence-marker.  Nothing has been
\* emitted after a read failure, an invalid paragraph number or any failure
\* of single-paragraph mode; after a write failure in whole-document mode the
\* chunks written before it remain: the output is empty or a proper prefix
\* of the complete text.
C10_NotContained ==
    /\ NotContained
    /\ (pc = "error" /\ (ParagraphMode \/ error.kind # "OSError")) =>
          (out = << >> /\ emitted = << >>)
    /\ (pc = "error" /\ DocumentMode /\ error.kind = "OSError") =>
          LET full == ExpectedText(all_processed_chunks, 0, Len(content)) IN
          /\ IsPrefix(out, full)
          /\ out = full => out = << >>
          /\ IsPrefix(emitted, ExpectedUnits(all_processed_chunks, 0, Len(content)))

\* The call of single-paragraph mode returned a text and writing it failed.
C10_Witness ==
    /\ ParagraphMode /\ pc = "error"
    /\ error.kind = "OSError"
    /\ inv.status = "returned"

----------------------------------------------------------------------------
(* Partition of a long document into batches.                              *)
(* The batches depend on the length of the document only, so PartitionSpec *)
(* runs the batch loop of process_document on documents of up to           *)
(* MaxLongUnits units with the service answering every request at once and *)
(* the futures finishing in index order.                                   *)

PartitionInit ==
    /\ mode = "document"
    /\ paragraph_number = 0
    /\ output_file \in BOOLEAN
    /\ pc = "loop"
    /\ \E n \in 0..MaxLongUnits :
         content = read_word_file(RawParagraphs(0, n, FALSE))
    /\ batch_start = 0
    /\ futures = << >>
    /\ collected = {}
    /\ results = << >>
    /\ all_processed_chunks = << >>
    /\ emit_pos = 0
    /\ inv = NoInvoker
    /\ out = << >>
    /\ emitted = << >>
    /\ pacing = << >>
    /\ error = NoError
    /\ exit_status = -1

LowestPending(k) ==
    /\ k \in DOMAIN futures
    /\ futures[k].state = "pending"
    /\ \A j \in DOMAIN futures : futures[j].state = "pending" => k <= j

RunNextCall ==
    \E k \in DOMAIN futures :
       /\ LowestPending(k)
       /\ RunCall(k)
       /\ futures'[k].state = "returned"

CollectNext ==
    \E k \in DOMAIN futures :
       /\ \A j \in DOMAIN futures : k <= j
       /\ Collect(k)

PartitionNext ==
    \/ DispatchBatch
    \/ RunNextCall
    \/ CollectNext
    \/ ReturnBatch
    \/ Pace

PartitionSpec == PartitionInit /\ [][PartitionNext]_vars

\* The units of the batch that process_batch is working on.
BatchUnits == collected \cup DOMAIN futures

\* C11: process_document cuts the N units into consecutive batches of at most
\* BATCH_SIZE = 5 units: a batch is never empty, it starts at a multiple of 5
\* right after the units already processed, it holds the contiguous indices
\* from its start index up to 4 more (fewer only when the document ends), the
\* chunk submitted for an index is that unit's text, and when the loop is over
\* the batches have covered 0..N-1 without gap or overlap.  For N = 12 the
\* batches are 0..4, 5..9 and 10..11.
C11_Partition ==
    /\ pc \in {"batch", "pace"} =>
          /\ BatchUnits # {}
          /\ Cardinality(BatchUnits) <= 5
          /\ batch_start % 5 = 0
          /\ \A k \in BatchUnits : batch_start <= k /\ k < Len(content)
          /\ \A k \in batch_start..(Len(content) - 1) :
                k \in BatchUnits <=> k < batch_start + 5
          /\ Cardinality(BatchUnits) < 5 => batch_start + Cardinality(BatchUnits) = Len(content)
          /\ Indices(all_processed_chunks) =
                0..((IF pc = "batch" THEN batch_start ELSE batch_start + Cardinality(BatchUnits)) - 1)
          /\ \A k \in DOMAIN futures :
                futures[k].state = "pending" => futures[k].value = content[k + 1]
    /\ (pc \in {"batch", "pace"} /\ Len(content) = 12) =>
          \/ batch_start = 0 /\ BatchUnits = 0..4
          \/ batch_start = 5 /\ BatchUnits = 5..9
          \/ batch_start = 10 /\ BatchUnits = 10..11
    /\ (pc = "loop" /\ batch_start >= Len(content)) =>
          /\ Len(all_processed_chunks) = Len(content)
          /\ IndexColumn(all_processed_chunks) = [k \in 1..Len(content) |-> k - 1]
          /\ Len(pacing) * 5 >= Len(content)
          /\ (Len(pacing) - 1) * 5 < Len(content) \/ Len(content) = 0

\* The third batch of a 12-unit document has been submitted: units 10 and 11.
C11_Witness ==
    /\ Len(content) = 12
    /\ pc = "batch"
    /\ batch_start = 10
    /\ DOMAIN futures = {10, 11}

----------------------------------------------------------------------------
\* The calls of process_batch that have been submitted and have not ended.
InFlight == {k \in DOMAIN futures : futures[k].state = "pending"}

\* process_document calls process_batch in this step.
Dispatching == pc = "loop" /\ pc' = "batch"

\* C12: Batches run strictly one after another: calls are outstanding only
\* while process_batch runs, they all belong to the batch it was called for,
\* and a batch is dispatched only when no future of an earlier batch is left
\* and every earlier index has its collected result in the aggregate list.
C12_SequentialBatches ==
    /\ [](DocumentMode =>
            /\ pc # "batch" => DOMAIN futures = {}
            /\ pc = "batch" =>
                 /\ DOMAIN futures \subseteq BatchRange
                 /\ Indices(results) \subseteq BatchRange
                 /\ Indices(all_processed_chunks) = 0..(batch_start - 1))
    /\ [][Dispatching =>
            /\ DOMAIN futures = {}
            /\ Indices(all_processed_chunks) = 0..(batch_start - 1)
            /\ Len(all_processed_chunks) = batch_start
            /\ \A k \in DOMAIN futures' :
                  k >= batch_start /\ futures'[k].state = "pending"]_vars

\* The second batch is in flight; the five units of the first are collected.
C12_Witness ==
    /\ DocumentMode /\ pc = "batch"
    /\ batch_start = BATCH_SIZE
    /\ InFlight # {}
    /\ Len(all_processed_chunks) = BATCH_SIZE

\* C13: process_batch submits exactly one call per unit of its batch, keyed
\* by start_index + position and given that unit's text; a call that has
\* ended is not run again, every unit of the batch is either outstanding or
\* collected once, and at most BATCH_SIZE = 5 calls are in flight at any time.
C13_OneCallPerUnit ==
    /\ [](/\ Cardinality(InFlight) + (IF inv.status = "running" THEN 1 ELSE 0) <= 5
          /\ (DocumentMode /\ pc = "batch") =>
               /\ collected \cap DOMAIN futures = {}
               /\ collected \cup DOMAIN futures = BatchRange
               /\ Indices(results) = collected
               /\ Len(results) = Cardinality(collected))
    /\ [][/\ Dispatching =>
               /\ DOMAIN futures' = BatchRange
               /\ \A k \in BatchRange :
                     futures'[k] = [state |-> "pending", value |-> content[k + 1]]
          /\ \A k \in DOMAIN futures \cap DOMAIN futures' :
               futures[k].state # "pending" => futures'[k] = futures[k]]_vars

\* A full batch has been submitted and none of its calls has ended.
C13_Witness ==
    /\ DocumentMode /\ pc = "batch"
    /\ Cardinality(InFlight) = BATCH_SIZE
    /\ collected = {}

TaggedRight(entry) ==
    /\ entry[1] \in 0..(Len(content) - 1)
    /\ entry[2] = None \/ entry[2] = Normalize(content[entry[1] + 1])

\* C14: Every result carries the index of the unit it was computed from: an
\* entry (i, text) of a batch's results or of the aggregate list holds the
\* absence-marker or the normalizer's answer to the text of unit i, and a
\* future keyed by i was given unit i's text and returns the answer to it,
\* whatever the order of completion and whichever units fail.
C14_ResultTagged ==
    DocumentMode =>
       /\ \A k \in 1..Len(results) : TaggedRight(results[k])
       /\ \A k \in 1..Len(all_processed_chunks) : TaggedRight(all_processed_chunks[k])
       /\ \A k \in DOMAIN futures :
             /\ futures[k].state = "pending" => futures[k].value = content[k + 1]
             /\ futures[k].state = "returned" => futures[k].value = Normalize(content[k + 1])
       /\ \A i, j \in 1..Len(content) : i # j => Normalize(content[i]) # Normalize(content[j])

\* A batch has returned whose calls were collected out of index order, one
\* of them failed and another has its text.
C14_Witness ==
    /\ DocumentMode /\ pc = "pace"
    /\ ~Ascending(IndexColumn(results))
    /\ \E a, b \in 1..Len(results) :
          results[a][2] = None /\ results[b][2] # None

----------------------------------------------------------------------------
Emitting == pc \in {"write", "print", "print_blank"}

\* The steps of the pipeline Read -> (Batch -> Invoke)* -> Assemble -> Emit
PipelineSteps ==
    { << "start", "loop" >>, << "start", "error" >>,
      << "loop", "batch" >>, << "batch", "pace" >>, << "pace", "loop" >>,
      << "loop", "emit" >>,
      << "emit", "write" >>, << "emit", "print" >>, << "emit", "error" >>,
      << "write", "done" >>, << "write", "error" >>,
      << "print", "print_blank" >>, << "print_blank", "print" >>,
      << "print", "done" >>, << "print", "error" >>, << "print_blank", "error" >> }

\* C15: A whole-document run follows Read -> (Batch -> Invoke)* -> Assemble ->
\* Emit.  Nothing is written before every batch has been collected and the
\* aggregate list is sorted; calls are submitted, run and collected only
\* between the successful read and the final sort, never while or after the
\* output is written, and never after a failed read.
C15_Pipeline ==
    /\ [](DocumentMode =>
            /\ (Emitting \/ out # << >> \/ emitted # << >>) =>
                 /\ batch_start >= Len(content)
                 /\ Len(all_processed_chunks) = Len(content)
                 /\ Ascending(IndexColumn(all_processed_chunks))
                 /\ DOMAIN futures = {}
            /\ pc = "start" =>
                 (content = << >> /\ futures = << >> /\ results = << >>
                    /\ all_processed_chunks = << >>)
            /\ InFlight # {} => (pc = "batch" /\ out = << >> /\ emitted = << >>)
            /\ error.kind \in ReadErrors =>
                 (futures = << >> /\ results = << >> /\ all_processed_chunks = << >>))
    /\ [][DocumentMode =>
            /\ pc' # pc => << pc, pc' >> \in PipelineSteps
            /\ (futures' # futures \/ results' # results) =>
                 (pc \in {"loop", "batch"} /\ pc' = "batch")
            /\ (out' # out \/ emitted' # emitted) => Emitting
            /\ Emitting => all_processed_chunks' = all_processed_chunks]_vars

\* The output file of a two-batch run is being written.
C15_Witness ==
    /\ DocumentMode /\ pc = "write"
    /\ Len(content) > BATCH_SIZE
    /\ out # << >>
    /\ emit_pos < Len(all_processed_chunks)

\* C16: After a batch is collected process_document sleeps the pacing delay
\* of 1 exactly once before it dispatches the next batch: the step that
\* leaves a collected batch is one sleep of 1, no other step sleeps it, and
\* the batch with start index 5 * j is dispatched after exactly j delays.
C16_PacingDelay ==
    /\ [](DocumentMode =>
            /\ \A k \in 1..Len(pacing) : pacing[k] = 1
            /\ pc \in {"loop", "batch", "pace"} => Len(pacing) * 5 = batch_start)
    /\ [][/\ pc = "pace" => (pacing' = Append(pacing, 1) /\ pc' = "loop")
          /\ pacing' # pacing => pc = "pace"
          /\ Dispatching => pacing' = pacing]_vars

\* The second batch is in flight after one pacing delay.
C16_Witness ==
    /\ DocumentMode /\ pc = "batch"
    /\ batch_start = BATCH_SIZE
    /\ pacing = << 1 >>

----------------------------------------------------------------------------
(* Termination.                                                            *)
(* FairSpec is the program under weak fairness of its steps: the main      *)
(* thread and the pool threads keep running and every request is answered. *)
(* The calls of a batch run and are collected in any order for documents   *)
(* of up to MaxFreeUnits units; for longer documents (up to two batches)   *)
(* the threads finish and are collected in index order, every outcome of   *)
(* every call still being possible.                                        *)

FreeOrder == Len(content) <= MaxFreeUnits

RunCallFair ==
    \E k \in DOMAIN futures :
       /\ FreeOrder \/ LowestPending(k)
       /\ RunCall(k)

CollectFair ==
    \E k \in DOMAIN futures :
       /\ FreeOrder \/ \A j \in DOMAIN futures : k <= j
       /\ Collect(k)

FairNext ==
    \/ ReadDocument
    \/ ReadFails
    \/ DispatchBatch
    \/ RunCallFair
    \/ CollectFair
    \/ ReturnBatch
    \/ Pace
    \/ Assemble
    \/ OpenOutput
    \/ WriteChunk
    \/ PrintChunk
    \/ PrintBlank
    \/ FinishDocument
    \/ Validate
    \/ InvokeSingle
    \/ OutputSingle

FairSpec == Init /\ [][FairNext]_vars /\ WF_vars(FairNext)

Ended == pc \in {"done", "error"}

\* C17: Every run terminates.  When each request is answered, a run ends well
\* or with a fatal error; a whole-document run that has read its document
\* gets to the emission of the output or to a fatal error; every submitted
\* call ends; and the call of single-paragraph mode returns or raises, its
\* retry counter growing by one with every request that does not end it and
\* never passing MAX_RETRIES = 3.
C17_Terminates ==
    /\ <>Ended
    /\ (DocumentMode /\ pc = "loop") ~> (Emitting \/ Ended)
    /\ (InFlight # {}) ~> (InFlight = {})
    /\ (inv.status = "running") ~> (inv.status \in {"returned", "raised"})
    /\ [](inv.retry_count <= 3)
    /\ [][(inv.status = "running" /\ inv'.status = "running" /\ inv' # inv)
             => inv'.retry_count = inv.retry_count + 1]_vars

\* A two-batch run has come to its end after two pacing delays.
C17_Witness ==
    /\ DocumentMode /\ pc = "done"
    /\ Len(content) > BATCH_SIZE
    /\ Len(pacing) = 2

----------------------------------------------------------------------------
\* Number of throttled replies to the requests made before position k of a trace
ThrottledBefore(iv, k) ==
    Cardinality({m \in 1..Requests(SubSeq(iv.trace, 1, k - 1)) :
                    iv.replies[m] = "throttle"})

\* What a call that is throttled j times and then answered must have done.
ThrottledThenAnswered(iv, j) ==
    /\ iv.status = "returned"
    /\ iv.value = Normalize(iv.chunk)
    /\ iv.retry_count = j
    /\ Requests(iv.trace) = j + 1
    /\ Len(iv.replies) = j + 1
    /\ \A m \in 1..j : iv.replies[m] = "throttle"
    /\ iv.replies[j + 1] = "ok"
    /\ Sleeps(iv.trace) = [m \in 1..j |-> RATE_LIMIT_DELAY * Pow2(m - 1)]

\* C18: A call that is throttled j times (0 <= j <= MAX_RETRIES) and then
\* answered returns the text of that answer after exactly j + 1 requests and
\* the j sleeps 1, 2, .., 2^(j-1); the retry counter with which a request is
\* made is the number of throttled requests before it and is at most
\* MAX_RETRIES.  The same holds of the call that the thread of any pending
\* future will run.
C18_ThrottledThenOk ==
    /\ inv.status # "idle" =>
          /\ inv.retry_count <= MAX_RETRIES
          /\ \A k \in 1..Len(inv.trace) :
                inv.trace[k].ev = "call" =>
                   /\ inv.trace[k].arg = ThrottledBefore(inv, k)
                   /\ inv.trace[k].arg <= MAX_RETRIES
    /\ inv.status = "returned" =>
          /\ Len(inv.replies) - 1 \in 0..MAX_RETRIES
          /\ ThrottledThenAnswered(inv, Len(inv.replies) - 1)
    /\ \A i \in DOMAIN futures :
          futures[i].state = "pending" =>
             \A j \in 0..MAX_RETRIES :
                LET r == RunInvoker(NewInvoker(futures[i].value),
                                    [throttles |-> j, final |-> "ok"]) IN
                /\ ThrottledThenAnswered(r, j)
                /\ r.chunk = futures[i].value

\* Single-paragraph mode has ended well after three throttled requests.
C18_Witness ==
    /\ ParagraphMode /\ pc = "done"
    /\ inv.replies = << "throttle", "throttle", "throttle", "ok" >>

AllFailed ==
    \A k \in 1..Len(all_processed_chunks) : all_processed_chunks[k][2] = None

\* C19: A whole-document run whose units all failed, and a run on a document
\* without units, emit nothing and end well: the output stays empty, nothing
\* but opening the output file can fail, a run that ends has exit status 0
\* and, when an output file was asked for, has opened (created) it.  For a
\* document without units no batch is dispatched, no call is made and no
\* pacing delay is slept.
C19_NothingToEmit ==
    /\ [](DocumentMode =>
            /\ (LoopOver /\ AllFailed) =>
                 /\ out = << >> /\ emitted = << >>
                 /\ pc = "error" => (error.kind = "OSError" /\ output_file /\ emit_pos = 0)
                 /\ pc = "done" => (exit_status = 0 /\ error = NoError)
            /\ (Len(content) = 0 /\ pc # "start") =>
                 /\ futures = << >> /\ results = << >> /\ collected = {}
                 /\ all_processed_chunks = << >> /\ pacing = << >>
                 /\ pc \notin {"batch", "pace"}
                 /\ LoopOver \/ error.kind \in ReadErrors)
    /\ [][(DocumentMode /\ LoopOver /\ AllFailed) =>
            /\ pc' = "error" => (pc \in {"emit", "error"} /\ output_file)
            /\ (pc' = "done" /\ pc # "done" /\ output_file) => pc = "write"
            /\ out' = << >>]_vars

\* A two-batch run in which every unit failed has ended with an empty file.
C19_Witness ==
    /\ DocumentMode /\ pc = "done"
    /\ output_file
    /\ Len(content) > BATCH_SIZE
    /\ AllFailed
    /\ out = << >>

====
